---- MODULE Spec2Model ----
(***************************************************************************)
(* vesta: the case! macro (vesta-syntax: CaseInput::compile and            *)
(* CaseOutput::to_tokens), the Match derivation (vesta-macro) and the      *)
(* run of the emitted two-level dispatch against the Match / Case traits   *)
(* (vesta).                                                                *)
(*                                                                         *)
(* Option<T> is modelled as a sequence of length at most one: None is <<>> *)
(* and Some(x) is <<x>> (the code itself iterates Options that way).       *)
(* A BTreeMap is a function whose DOMAIN is the key set; iteration over it *)
(* is in ascending key order.  A String is a TLA+ string; the backquote    *)
(* character, which a TLA+ string literal cannot hold, is written Tick.    *)
(***************************************************************************)
EXTENDS Integers, Sequences, FiniteSets, TLC

VARIABLES
    pc,         \* position in the pipeline of one expansion and one run
    arms,       \* CaseInput.arms, as parsed
    output,     \* Option<CaseOutput>: the Ok value of compile()
    errors,     \* the errors compile() returned (its Err value)
    tokens,     \* the outer arms emitted by to_tokens, in order
    ty,         \* the impls derived for the scrutinee's type
    value,      \* the scrutinee value of the run
    tag,        \* the result of Match::tag(&value) in the run
    sel,        \* the outer arm the run took (0: none yet)
    calls,      \* the unchecked extracts Case::<N>::case(value) of the run
    ran,        \* the bodies the run executed (0: vesta::unreachable())
    entries,    \* the entries of the case-expression as written (tokens)
    writes,     \* writes through interior mutability during the dispatch
    decl,       \* the DeriveInput given to the derivation
    impls,      \* the items the derivation emitted for decl
    idx,        \* the N of the Case<N> whose functions are called
    this,       \* Option: the value the Case<N> functions are applied to
    given,      \* Option: the payload handed to Case::<N>::uncase
    tagged,     \* Option: the result of Match::tag(&this)
    tried,      \* Option: the result of Case::<N>::try_case(this)
    cased,      \* Option: the result of Case::<N>::case(this)
    uncased     \* Option: the result of Case::<N>::uncase(cased)

deriveVars == <<decl, impls, idx, this, given, tagged, tried, cased, uncased>>

vars == <<pc, arms, output, errors, tokens, ty, value, tag, sel, calls, ran,
          entries, writes, deriveVars>>

-----------------------------------------------------------------------------
(* Bounds *)

MaxArms == 3        \* arms per case-expression
MaxTag == 2         \* tags written in arms are 0..MaxTag
MaxVariants == 3    \* declared variants per type
FmtMaxTag == 5      \* tags written in arms of the message-format specification

-----------------------------------------------------------------------------
(* Option *)

None == <<>>
Some(x) == <<x>>
is_none(o) == o = <<>>
is_some(o) == o # <<>>

Max(S) == CHOOSE m \in S : \A x \in S : x <= m

\* The elements of a set of naturals as an ascending sequence
\* (the iteration order of BTreeMap keys and of a range).
RECURSIVE Ascending(_)
Ascending(S) ==
    IF S = {} THEN <<>>
    ELSE LET m == Max(S) IN Append(Ascending(S \ {m}), m)

-----------------------------------------------------------------------------
(* The input: arms as CaseArm::parse leaves them *)

Pats == {"_", "0"}      \* a payload pattern: the wildcard, or a literal

\* syn::Arm: a pattern, whether a guard `if ..` is written, and the body
\* (named by the arm's source position, 1 or more).
ArmOf(p, g, b) == [pat |-> p, guard |-> g, body |-> b]

\* CaseArm { tag, tag_span, arm }; the span is the arm's source position.
CaseArm(t, i, p, g) == [tag |-> t, tag_span |-> i, arm |-> ArmOf(p, g, i)]

\* The (tag, pattern, guard) shapes of one arm: an untagged arm `_ ..` has the
\* wildcard pattern, a tagged one any pattern.
Shapes(maxTag) ==
    {<<None, "_", g>> : g \in BOOLEAN}
    \cup {<<Some(t), p, g>> : t \in 0..maxTag, p \in Pats, g \in BOOLEAN}

PlainShapes(maxTag) ==
    {<<None, "_", FALSE>>} \cup {<<Some(t), "_", FALSE>> : t \in 0..maxTag}

\* The arms of the given shapes, in source order.
ArmsOf(s) == [i \in 1..Len(s) |-> CaseArm(s[i][1], i, s[i][2], s[i][3])]

-----------------------------------------------------------------------------
(* CaseInput::compile *)

\* The state of the loop over the arms.
CompileInit ==
    [cases |-> <<>>, default |-> None, unreachable |-> <<>>, all_tags |-> {}]

\* Mutant of EntryPush: the arm is put in front of the tag's earlier arms.
EntryPushFront(cases, t, x) ==
    [k \in (DOMAIN cases) \cup {t} |->
        IF k = t
        THEN <<x>> \o (IF t \in DOMAIN cases THEN cases[t] ELSE <<>>)
        ELSE cases[k]]

\* cases.entry(tag).or_insert_with(Vec::new).push(x)
EntryPush(cases, t, x) ==
    [k \in (DOMAIN cases) \cup {t} |->
        IF k = t
        THEN Append(IF t \in DOMAIN cases THEN cases[t] ELSE <<>>, x)
        ELSE cases[k]]

\* Mutant of CompileStep: every untagged arm becomes the default, the last
\* one winning.
CompileStepLastDefault(st, case_arm) ==
    IF is_some(case_arm.tag)
    THEN IF is_none(st.default)
         THEN LET t == case_arm.tag[1] IN
              [st EXCEPT !.all_tags = @ \cup {t},
                         !.cases = EntryPush(@, t,
                                        <<case_arm.tag_span, case_arm.arm>>)]
         ELSE [st EXCEPT !.unreachable = Append(@, case_arm)]
    ELSE [st EXCEPT !.default = Some(<<case_arm.tag_span, case_arm.arm>>)]

\* Mutant of CompileStep: the arms after the default are dropped.
CompileStepDropsLater(st, case_arm) ==
    IF is_none(st.default)
    THEN IF is_some(case_arm.tag)
         THEN LET t == case_arm.tag[1] IN
              [st EXCEPT !.all_tags = @ \cup {t},
                         !.cases = EntryPush(@, t,
                                        <<case_arm.tag_span, case_arm.arm>>)]
         ELSE [st EXCEPT !.default =
                            Some(<<case_arm.tag_span, case_arm.arm>>)]
    ELSE st

\* One iteration of `for case_arm in arms`.
CompileStep(st, case_arm) ==
    IF is_none(st.default)
    THEN IF is_some(case_arm.tag)
         THEN LET t == case_arm.tag[1] IN
              [st EXCEPT !.all_tags = @ \cup {t},
                         !.cases = EntryPush(@, t,
                                        <<case_arm.tag_span, case_arm.arm>>)]
         ELSE [st EXCEPT !.default =
                            Some(<<case_arm.tag_span, case_arm.arm>>)]
    ELSE [st EXCEPT !.unreachable = Append(@, case_arm)]

RECURSIVE CompileLoop(_, _)
CompileLoop(as, n) ==
    IF n = 0 THEN CompileInit
    ELSE CompileStep(CompileLoop(as, n - 1), as[n])

\* Mutant of MaxTagOf: the first tag of the set, not the last (no rev()).
MinTagOf(all_tags) ==
    IF all_tags = {} THEN None
    ELSE Some(CHOOSE m \in all_tags : \A x \in all_tags : m <= x)

\* all_tags.iter().rev().next().cloned()
MaxTagOf(all_tags) == IF all_tags = {} THEN None ELSE Some(Max(all_tags))

\* Mutant of MissingCases: the range starts at 1.
MissingCasesFromOne(st) ==
    LET max_tag == MaxTagOf(st.all_tags) IN
    IF is_some(max_tag)
    THEN IF is_none(st.default)
         THEN Ascending({t \in 1..max_tag[1] : t \notin st.all_tags})
         ELSE <<>>
    ELSE <<>>

\* Mutant of MissingCases: the default is not looked at.
MissingCasesDespiteDefault(st) ==
    LET max_tag == MaxTagOf(st.all_tags) IN
    IF is_some(max_tag)
    THEN Ascending({t \in 0..max_tag[1] : t \notin st.all_tags})
    ELSE <<>>

\* (0..=max_tag).filter(|tag| !all_tags.contains(tag)).collect(), or empty
MissingCases(st) ==
    LET max_tag == MaxTagOf(st.all_tags) IN
    IF is_some(max_tag)
    THEN IF is_none(st.default)
         THEN Ascending({t \in 0..max_tag[1] : t \notin st.all_tags})
         ELSE <<>>
    ELSE <<>>

\* format!("{}", tag) of a usize: its decimal digits.
Digit(d) == CASE d = 0 -> "0" [] d = 1 -> "1" [] d = 2 -> "2" [] d = 3 -> "3"
              [] d = 4 -> "4" [] d = 5 -> "5" [] d = 6 -> "6" [] d = 7 -> "7"
              [] d = 8 -> "8" [] d = 9 -> "9"

RECURSIVE Decimal(_)
Decimal(n) == IF n < 10 THEN Digit(n) ELSE Decimal(n \div 10) \o Digit(n % 10)

Tick == "'"     \* stands for the backquote character

\* format!("`{}`", tag): how compile() of vesta-syntax, the one the case!
\* macro calls, renders one missing tag.
RenderTag(t) == Tick \o Decimal(t) \o Tick

\* format!("`{}(_)`", tag): the rendering in vesta-macro/src/case_macro.rs,
\* a file no crate declares as a module.
RenderTagCaseMacro(t) == Tick \o Decimal(t) \o "(_)" \o Tick

\* What the loop over missing_cases.iter().enumerate() pushes before the
\* n-th (0-based) tag.
Separator(n, max) ==
    IF n > 0                \* previous
    THEN IF n = max
         THEN (IF max > 1 THEN "," ELSE "") \o " and "
         ELSE ", "
    ELSE ""

\* `patterns` after the first k iterations of the loop.
RECURSIVE Patterns(_, _)
Patterns(missing, k) ==
    IF k = 0 THEN ""
    ELSE LET max == IF Len(missing) = 0 THEN 0 ELSE Len(missing) - 1
             n == k - 1
         IN  Patterns(missing, k - 1) \o Separator(n, max)
                \o RenderTag(missing[k])

Message(missing) ==
    "non-exhaustive patterns: " \o Patterns(missing, Len(missing))
        \o " not covered"

\* The value compile() returns: Ok(CaseOutput) or Err(Error::new(span, message)).
CompileResult(as) ==
    LET st == CompileLoop(as, Len(as))
        missing_cases == MissingCases(st)
    IN  IF missing_cases = <<>>
        THEN [ok |-> TRUE,
              output |-> [cases |-> st.cases, default |-> st.default,
                          unreachable |-> st.unreachable]]
        ELSE [ok |-> FALSE,
              error |-> [span |-> "scrutinee",
                         message |-> Message(missing_cases)]]

-----------------------------------------------------------------------------------------------------------------------------------------------------
(* CaseOutput::to_tokens *)

\* The max tag ever mentioned: the keys of cases chained with the tags of the
\* unreachable arms.
RECURSIVE FoldMax(_, _)
FoldMax(ts, n) ==
    IF n = 0 THEN None
    ELSE LET max_tag == FoldMax(ts, n - 1) IN
         IF is_none(max_tag) THEN Some(ts[n])
         ELSE Some(IF max_tag[1] >= ts[n] THEN max_tag[1] ELSE ts[n])

RECURSIVE FilterMapTags(_, _)
FilterMapTags(unreachable, n) ==
    IF n = 0 THEN <<>>
    ELSE FilterMapTags(unreachable, n - 1) \o unreachable[n].tag

MentionedMax(out) ==
    LET ts == Ascending(DOMAIN out.cases)
                \o FilterMapTags(out.unreachable, Len(out.unreachable))
    IN  FoldMax(ts, Len(ts))

\* Mutant of ExhaustiveCases: the bound is the max tag, not one more.
ExhaustiveCasesMaxTag(out) ==
    IF is_some(out.default) THEN None
    ELSE LET max_tag == MentionedMax(out) IN
         Some(IF is_some(max_tag) THEN max_tag[1] ELSE 0)

\* exhaustive_cases: None with a default, else Some(max_tag + 1), or Some(0).
ExhaustiveCases(out) ==
    IF is_some(out.default) THEN None
    ELSE LET max_tag == MentionedMax(out) IN
         Some(IF is_some(max_tag) THEN max_tag[1] + 1 ELSE 0)

\* default_arm: the default's arm, zero or one of them.
DefaultArm(out) == IF is_some(out.default) THEN <<out.default[1][2]>> ELSE <<>>

\* An outer arm of the emitted `match tag { .. }`:
\*   kind     which part of to_tokens emitted it
\*   pat      Some(T) for the pattern `Some(T)`, None for `_`
\*   guard    whether the arm has a guard
\*   extract  Some(T) if its body is `match unsafe { Case::<T>::case(value) }`
\*   inner    the arms of that inner match, in order
\*   body     Some(b) if the arm has no inner match and runs body b
\*   bound    Some(N) if its body calls assert_exhaustive::<_, N>
OuterArm(k, p, g, e, in, b, n) ==
    [kind |-> k, pat |-> p, guard |-> g, extract |-> e, inner |-> in,
     body |-> b, bound |-> n]

\* The body `unsafe { vesta::unreachable() }`: no arm of the input (0).
Unreachable == 0

\* `_ => unsafe { vesta::unreachable() }`
WildUnreachable == ArmOf("_", FALSE, Unreachable)

SecondOf(pairs) == [i \in 1..Len(pairs) |-> pairs[i][2]]

\* Mutant of ActiveArm: the default arm comes before the tag's own arms.
ActiveArmDefaultFirst(out, t) ==
    OuterArm("active", Some(t), FALSE, Some(t),
             DefaultArm(out) \o SecondOf(out.cases[t]), None, None)

\* active_arms: one per key of cases, in key order; the inner arms are the
\* tag's arms followed by the default arm.
ActiveArm(out, t) ==
    OuterArm("active", Some(t), FALSE, Some(t),
             SecondOf(out.cases[t]) \o DefaultArm(out), None, None)

\* Mutant of ActiveArms: the extract is for the arm's position among the
\* keys, not for its tag.
ActiveArmsByPosition(out) ==
    LET keys == Ascending(DOMAIN out.cases) IN
    [i \in 1..Len(keys) |->
        [ActiveArm(out, keys[i]) EXCEPT !.extract = Some(i - 1)]]

ActiveArms(out) ==
    LET keys == Ascending(DOMAIN out.cases) IN
    [i \in 1..Len(keys) |-> ActiveArm(out, keys[i])]

\* exhaustive_arm: `_ => { assert_exhaustive::<_, N>(&value); unreachable() }`
ExhaustiveArm(out) ==
    LET e == ExhaustiveCases(out) IN
    IF is_some(e)
    THEN <<OuterArm("exhaustive", None, FALSE, None, <<>>, Some(Unreachable), e)>>
    ELSE <<>>

\* The default arm as an outer arm: the user's arm itself.
OuterDefault(out) ==
    LET d == DefaultArm(out) IN
    [i \in 1..Len(d) |->
        OuterArm("default", None, d[i].guard, None, <<>>, Some(d[i].body),
                 None)]

\* unreachable_arms: a tagged one inside its own sub-match, an untagged one
\* as it is.
UnreachableArm(ca) ==
    IF is_some(ca.tag)
    THEN OuterArm("unreachable", ca.tag, FALSE, ca.tag,
                  <<ca.arm, WildUnreachable>>, None, None)
    ELSE OuterArm("unreachable", None, ca.arm.guard, None, <<>>,
                  Some(ca.arm.body), None)

\* Mutant of UnreachableArms: the arms are emitted last first.
UnreachableArmsReversed(out) ==
    [i \in 1..Len(out.unreachable) |->
        UnreachableArm(out.unreachable[Len(out.unreachable) + 1 - i])]

UnreachableArms(out) ==
    [i \in 1..Len(out.unreachable) |-> UnreachableArm(out.unreachable[i])]

\* arms = active_arms.chain(exhaustive_arm.chain(default_arm.chain(unreachable_arms)))
ToTokens(out) ==
    ActiveArms(out) \o ExhaustiveArm(out) \o OuterDefault(out)
        \o UnreachableArms(out)

-----------------------------------------------------------------------------
(* derive_match_enum, and the traits Match and Case *)

\* Match::Range: Exhaustive<N> or Nonexhaustive.
Exhaustive(n) == <<"Exhaustive", n>>
Nonexhaustive == <<"Nonexhaustive">>

\* A declaration: whether it lacks #[non_exhaustive], and how many variants
\* it declares.
Decls == [exhaustive : BOOLEAN, num_variants : 0..MaxVariants]

\* Mutant of TagArms: the tags count from 1.
TagArmsFromOne(d) ==
    [i \in 1..d.num_variants |-> [ctor |-> Some(i - 1), result |-> Some(i)]]
        \o (IF ~d.exhaustive THEN <<[ctor |-> None, result |-> None]>>
            ELSE <<>>)

\* Mutant of TagArms: the tags count down from the last variant.
TagArmsReversed(d) ==
    [i \in 1..d.num_variants |->
        [ctor |-> Some(i - 1), result |-> Some(d.num_variants - i)]]
        \o (IF ~d.exhaustive THEN <<[ctor |-> None, result |-> None]>>
            ELSE <<>>)

\* tag_arms: `ident::constructor_i { .. } => Some(i)` for each declared
\* variant, then `_ => None` only if non-exhaustive.  An arm is its pattern
\* (Some(i): the i-th constructor, None: `_`) and its result.
TagArms(d) ==
    [i \in 1..d.num_variants |-> [ctor |-> Some(i - 1), result |-> Some(i - 1)]]
        \o (IF ~d.exhaustive THEN <<[ctor |-> None, result |-> None]>>
            ELSE <<>>)

\* The impls derive_match_enum emits: Match (Range and tag) and one Case<n>
\* per declared variant.
DeriveMatchEnum(d) ==
    [range |-> IF d.exhaustive THEN Exhaustive(d.num_variants)
               ELSE Nonexhaustive,
     tag_arms |-> TagArms(d),
     case_impls |-> {n \in 0..d.num_variants - 1 : TRUE},
     decl |-> d]

Payloads == {0, 1}

\* The values of a declared type: one of its declared variants with a
\* payload; a #[non_exhaustive] type may also hold a variant the declaration
\* does not list (a foreign enum that gained variants).
Values(d) ==
    [variant : (0..d.num_variants - 1)
                 \cup (IF d.exhaustive THEN {} ELSE {d.num_variants}),
     payload : Payloads]

\* The derived Match::tag: `match *self { tag_arms }`, the first arm whose
\* pattern matches.
DerivedTag(t, v) ==
    LET hits == {i \in 1..Len(t.tag_arms) :
                    t.tag_arms[i].ctor \in {None, Some(v.variant)}}
    IN  t.tag_arms[CHOOSE i \in hits : \A j \in hits : i <= j].result

\* The derived Case::<n>::case: `if let constructor(x) = this { x } else
\* { unreachable() }`.  Ok(payload), or the call of vesta::unreachable().
DerivedCase(n, v) ==
    IF v.variant = n THEN [ok |-> TRUE, payload |-> v.payload]
    ELSE [ok |-> FALSE, payload |-> 0]

-----------------------------------------------------------------------------
(* The host compiler's check of the expansion against the impls *)

\* Whether a match with these (pattern is irrefutable, guard) arms covers
\* every value: some arm is `_` with no guard.  (A literal pattern covers one
\* tag or payload of several; a guarded arm covers nothing.)
OuterExhaustive(toks) ==
    \E i \in 1..Len(toks) : is_none(toks[i].pat) /\ ~toks[i].guard

InnerExhaustive(inner) ==
    \E i \in 1..Len(inner) : inner[i].pat = "_" /\ ~inner[i].guard

\* Mutant of TypeChecks: assert_exhaustive without its bound on Range.
TypeChecksUnbounded(toks, t) ==
    /\ \A i \in 1..Len(toks) :
        is_some(toks[i].extract) =>
             /\ toks[i].extract[1] \in t.case_impls
             /\ InnerExhaustive(toks[i].inner)
    /\ OuterExhaustive(toks)

\* The expansion type-checks: every Case::<T>::case(value) has its impl,
\* assert_exhaustive::<_, N> has T: Match<Range = Exhaustive<N>>, and every
\* match is exhaustive.
TypeChecks(toks, t) ==
    /\ \A i \in 1..Len(toks) :
        /\ is_some(toks[i].extract) =>
             /\ toks[i].extract[1] \in t.case_impls
             /\ InnerExhaustive(toks[i].inner)
        /\ is_some(toks[i].bound) => t.range = Exhaustive(toks[i].bound[1])
    /\ OuterExhaustive(toks)

-----------------------------------------------------------------------------
(* The run of the emitted dispatch *)

\* The arms a `match` may take for a scrutinee: the arm's pattern matches, and
\* every earlier arm whose pattern matches has a guard (which was false); the
\* guard of the arm taken, if any, was true.
OuterMatches(toks, tg) ==
    {i \in 1..Len(toks) : is_none(toks[i].pat) \/ toks[i].pat = tg}

OuterTakes(toks, tg) ==
    {i \in OuterMatches(toks, tg) :
        \A j \in OuterMatches(toks, tg) : j < i => toks[j].guard}

PatMatches(pat, payload) == pat = "_" \/ (pat = "0" /\ payload = 0)

InnerMatches(inner, payload) ==
    {i \in 1..Len(inner) : PatMatches(inner[i].pat, payload)}

InnerTakes(inner, payload) ==
    {i \in InnerMatches(inner, payload) :
        \A j \in InnerMatches(inner, payload) : j < i => inner[j].guard}

-----------------------------------------------------------------------------
(* The pipeline *)

Start(as) ==
    /\ pc = "parsed"
    /\ arms = as
    /\ output = None
    /\ errors = <<>>
    /\ tokens = <<>>
    /\ ty = None
    /\ value = None
    /\ tag = None
    /\ sel = 0
    /\ calls = <<>>
    /\ ran = <<>>

\* No derivation of its own is under way.
NoDerive ==
    /\ decl = None
    /\ impls = None
    /\ idx = 0
    /\ this = None
    /\ given = None
    /\ tagged = None
    /\ tried = None
    /\ cased = None
    /\ uncased = None

Init ==
    /\ \E n \in 0..MaxArms :
        \E s \in [1..n -> Shapes(MaxTag)] : Start(ArmsOf(s))
    /\ entries = <<>>
    /\ writes = 0
    /\ NoDerive

\* case!: input.compile()
Compile ==
    /\ pc = "parsed"
    /\ LET r == CompileResult(arms) IN
       IF r.ok
       THEN /\ output' = Some(r.output)
            /\ errors' = errors
            /\ pc' = "compiled"
       ELSE /\ output' = output
            /\ errors' = Append(errors, r.error)
            /\ pc' = "failed"
    /\ UNCHANGED <<arms, tokens, ty, value, tag, sel, calls, ran>>
    /\ UNCHANGED <<entries, writes, deriveVars>>

\* case!: output.to_token_stream()
Emit ==
    /\ pc = "compiled"
    /\ tokens' = ToTokens(output[1])
    /\ pc' = "emitted"
    /\ UNCHANGED <<arms, output, errors, ty, value, tag, sel, calls, ran>>
    /\ UNCHANGED <<entries, writes, deriveVars>>

\* The host compiler checks the expansion, for a scrutinee of a type with
\* derived impls.
TypeCheck(d) ==
    /\ pc = "emitted"
    /\ ty' = Some(DeriveMatchEnum(d))
    /\ pc' = IF TypeChecks(tokens, DeriveMatchEnum(d)) THEN "checked"
             ELSE "rejected"
    /\ UNCHANGED <<arms, output, errors, tokens, value, tag, sel, calls, ran>>
    /\ UNCHANGED <<entries, writes, deriveVars>>

\* let value = scrutinee; let tag = Match::tag(&value);
RunTag ==
    /\ pc = "checked"
    /\ \E v \in Values(ty[1].decl) :
        /\ value' = Some(v)
        /\ tag' = Some(DerivedTag(ty[1], v))
    /\ pc' = "tagged"
    /\ UNCHANGED <<arms, output, errors, tokens, ty, sel, calls, ran>>
    /\ UNCHANGED <<entries, writes, deriveVars>>

\* match tag { arms }: the outer arm taken.
OuterMatch ==
    /\ pc = "tagged"
    /\ \E i \in OuterTakes(tokens, tag[1]) :
        /\ sel' = i
        /\ IF is_some(tokens[i].extract)
           THEN pc' = "extract" /\ ran' = ran
           ELSE pc' = "done" /\ ran' = Append(ran, tokens[i].body[1])
    /\ UNCHANGED <<arms, output, errors, tokens, ty, value, tag, calls>>
    /\ UNCHANGED <<entries, writes, deriveVars>>

\* unsafe { Case::<T>::case(value) }
Extract ==
    /\ pc = "extract"
    /\ LET n == tokens[sel].extract[1]
           r == DerivedCase(n, value[1])
       IN  /\ calls' = Append(calls, [N |-> n, tag |-> tag[1],
                                      payload |-> IF r.ok THEN Some(r.payload)
                                                  ELSE None])
           /\ IF r.ok THEN pc' = "inner" /\ ran' = ran
              ELSE pc' = "done" /\ ran' = Append(ran, Unreachable)
    /\ UNCHANGED <<arms, output, errors, tokens, ty, value, tag, sel>>
    /\ UNCHANGED <<entries, writes, deriveVars>>

\* match <payload> { inner arms }: the inner arm taken.
InnerMatch ==
    /\ pc = "inner"
    /\ \E j \in InnerTakes(tokens[sel].inner, calls[Len(calls)].payload[1]) :
        ran' = Append(ran, tokens[sel].inner[j].body)
    /\ pc' = "done"
    /\ UNCHANGED <<arms, output, errors, tokens, ty, value, tag, sel, calls>>
    /\ UNCHANGED <<entries, writes, deriveVars>>

Next ==
    \/ Compile
    \/ Emit
    \/ \E d \in Decls : TypeCheck(d)
    \/ RunTag
    \/ OuterMatch
    \/ Extract
    \/ InnerMatch

Spec == Init /\ [][Next]_vars

\* Case-expressions of plain arms (`N => ..` and `_ => ..`) over the wider
\* tag range 0..FmtMaxTag, for the missing-tag message.
InitFmt ==
    /\ \E n \in 0..MaxArms :
        \E s \in [1..n -> PlainShapes(FmtMaxTag)] : Start(ArmsOf(s))
    /\ entries = <<>>
    /\ writes = 0
    /\ NoDerive

SpecFmt == InitFmt /\ [][Next]_vars

-----------------------------------------------------------------------------
(* derive_match_impl: the derivation from a declaration with its fields *)

MaxFields == 2          \* fields per variant
DeriveVariants == 2     \* declared variants per type in SpecDerive

FieldValues == {0, 1}

\* syn::Fields: Named { .. } or Unnamed ( .. ) with some fields, or Unit.
Fields ==
    [style : {"named", "unnamed"}, len : 0..MaxFields]
        \cup {[style |-> "unit", len |-> 0]}

\* The name of the k-th field (k from 1): as declared for a named field, its
\* position 0, 1, .. for an unnamed one.
FieldIdents == <<"a", "b", "c", "d">>

FieldKey(f, k) == IF f.style = "named" THEN FieldIdents[k] ELSE Digit(k - 1)

\* DeriveInput { attrs, data }: a struct has one list of fields, an enum one
\* per variant, a union is not looked into.
VariantLists(max) == UNION {[1..k -> Fields] : k \in 0..max}

DeriveInputs ==
    [data : {"enum"}, non_exhaustive : BOOLEAN,
     variants : VariantLists(DeriveVariants)]
    \cup [data : {"struct"}, non_exhaustive : BOOLEAN,
          variants : [1..1 -> Fields]]
    \cup [data : {"union"}, non_exhaustive : BOOLEAN, variants : {<<>>}]

\* The declared type is T and its n-th variant (n from 0) is T::Vn.
TypeIdent == "T"
VariantIdent(n) == "V" \o Digit(n)

\* A type: () is the empty tuple, the type of the k-th declared field is
\* <<k>>, a tuple type is the sequence of its component types.
UnitType == <<>>
FieldType(k) == <<k>>

\* Mutant of OrderedFieldsTypes: two named fields are let through.
OrderedFieldsTypesTwoNamed(f) ==
    IF f.style = "named" /\ f.len > 2 THEN None
    ELSE IF f.style = "unit" THEN Some(<<UnitType>>)
    ELSE Some([k \in 1..f.len |-> FieldType(k)])

\* ordered_fields_types
OrderedFieldsTypes(f) ==
    IF f.style = "named" /\ f.len > 1 THEN None
    ELSE IF f.style = "unit" THEN Some(<<UnitType>>)
    ELSE Some([k \in 1..f.len |-> FieldType(k)])

\* `( #case_types )`: one type in parentheses is that type.
TupleType(types) == IF Len(types) = 1 THEN types[1] ELSE types

\* field_names: Ok(names) of named fields (none for Unit and for `V()`),
\* Err(len) for unnamed ones.
FieldNames(f) ==
    IF f.style = "unnamed" /\ f.len > 0
    THEN [ok |-> FALSE, names |-> <<>>, params |-> f.len]
    ELSE [ok |-> TRUE, names |-> [k \in 1..f.len |-> FieldIdents[k]],
          params |-> 0]

\* case_impl: None for more than one named field, else the item
\* `impl Case<n> for T`: its constructor (the variant it names), whether the
\* pattern and the expression are written `C { names }` (else `C(names)`),
\* the names bound, and the type Case.
CaseImpl(n, constructor, f) ==
    LET t == OrderedFieldsTypes(f)
        r == FieldNames(f)
    IN  IF is_none(t) THEN None
        ELSE Some([kind |-> "Case", N |-> n, constructor |-> constructor,
                   braces |-> r.ok,
                   names |-> IF r.ok THEN r.names
                             ELSE [k \in 1..r.params |-> "x_" \o Digit(k - 1)],
                   Case |-> TupleType(t[1])])

\* Error::new(span, message).to_compile_error(); the span is the variant
\* whose fields it points at, or None for the call site.
CompileError(span, message) ==
    [kind |-> "compile_error", span |-> span, message |-> message]

StructMessage(i) ==
    "cannot derive " \o Tick \o "Match" \o Tick \o " for the struct "
        \o Tick \o i \o Tick \o " with more than one named field\n"
        \o "consider making " \o Tick \o i \o Tick
        \o " a tuple struct, or a wrapper for another type with named fields"

VariantMessage(i, c) ==
    "cannot derive " \o Tick \o "Match" \o Tick \o " for the enum variant "
        \o Tick \o i \o "::" \o c \o Tick \o " with more than one named field\n"
        \o "consider making " \o Tick \o i \o "::" \o c \o Tick
        \o " a tuple variant, or a wrapper for another type with named fields"

UnionMessage ==
    "Cannot derive " \o Tick \o "Match" \o Tick
        \o " for a union, since unions lack a tag"

\* The item `unsafe impl Match for T`.
MatchImpl(range, tag_arms) ==
    [kind |-> "Match", range |-> range, tag_arms |-> tag_arms]

\* The range derive_match_struct writes.
Bounded(n) == <<"Bounded", n>>

\* derive_match_struct: the Match impl with tag() = Some(0) and the Case<0>
\* impl, or the error.  The items are in the order emitted.
DeriveMatchStruct(f) ==
    LET c == CaseImpl(0, 0, f) IN
    IF is_some(c)
    THEN <<MatchImpl(Bounded(1), <<[ctor |-> None, result |-> Some(0)]>>),
           c[1]>>
    ELSE <<CompileError(Some(0), StructMessage(TypeIdent))>>

\* derive_match_enum with the variants' fields: the Match impl first, then
\* for each variant its Case impl or its error.
DeriveMatchEnumItems(exhaustive, variants) ==
    LET m == DeriveMatchEnum([exhaustive |-> exhaustive,
                              num_variants |-> Len(variants)])
        case_impls ==
            [k \in 1..Len(variants) |->
                LET c == CaseImpl(k - 1, k - 1, variants[k]) IN
                IF is_some(c) THEN c[1]
                ELSE CompileError(Some(k - 1),
                        VariantMessage(TypeIdent, VariantIdent(k - 1)))]
    IN  <<MatchImpl(m.range, m.tag_arms)>> \o case_impls

\* derive_match_impl
DeriveMatchImpl(d) ==
    LET exhaustive == ~d.non_exhaustive IN
    IF d.data = "struct" THEN DeriveMatchStruct(d.variants[1])
    ELSE IF d.data = "enum" THEN DeriveMatchEnumItems(exhaustive, d.variants)
    ELSE <<CompileError(None, UnionMessage)>>

ItemsOfKind(items, k) == SelectSeq(items, LAMBDA it : it.kind = k)

\* The impl of Case<n> among the items.
CaseOf(items, n) ==
    LET cs == ItemsOfKind(items, "Case") IN
    cs[CHOOSE k \in 1..Len(cs) : cs[k].N = n]

CaseTags(items) ==
    LET cs == ItemsOfKind(items, "Case") IN {cs[k].N : k \in 1..Len(cs)}

\* The host compiler accepts the items: there is no compile_error!, and
\* the Range of a Match impl is one of the types vesta defines.
RangeTypes == {"Exhaustive", "Nonexhaustive"}

Compiles(items) ==
    \A k \in 1..Len(items) :
        /\ items[k].kind # "compile_error"
        /\ items[k].kind = "Match" => items[k].range[1] \in RangeTypes

\* The impls of a type as the dispatch sees them.
ImplsOf(items) ==
    LET m == ItemsOfKind(items, "Match")[1] IN
    [range |-> m.range, tag_arms |-> m.tag_arms, case_impls |-> CaseTags(items)]

\* The values of the declared type: a declared variant with a value for each
\* of its fields; a #[non_exhaustive] enum may also hold a variant the
\* declaration does not list.
FieldsOf(f) == [{FieldKey(f, k) : k \in 1..f.len} -> FieldValues]

ValuesOf(d) ==
    UNION {[variant : {k - 1}, fields : FieldsOf(d.variants[k])] :
                k \in 1..Len(d.variants)}
    \cup (IF d.data = "enum" /\ d.non_exhaustive
          THEN {[variant |-> Len(d.variants), fields |-> <<>>]}
          ELSE {})

\* The values of the type Case of an impl: a tuple of one value per name
\* (the one-tuple stands for the single value).
PayloadsOf(c) == [1..Len(c.names) -> FieldValues]

\* Mutant of Bind: every name is bound to the first field.
BindFirst(c, v) ==
    [k \in 1..Len(c.names) |->
        IF c.braces THEN v.fields[c.names[1]] ELSE v.fields[Digit(0)]]

\* The pattern `C(names)` or `C { names }` against a value of variant C: the
\* values bound to the names, in the order of the names.  `C(x_0, x_1)`
\* binds by position, `C { a }` binds the field of that name.
Bind(c, v) ==
    [k \in 1..Len(c.names) |->
        IF c.braces THEN v.fields[c.names[k]] ELSE v.fields[Digit(k - 1)]]

\* Mutant of Construct: the positional fields are filled in reverse.
ConstructReversed(c, env) ==
    [variant |-> c.constructor,
     fields |->
        IF c.braces
        THEN [nm \in {c.names[k] : k \in 1..Len(c.names)} |->
                env[CHOOSE k \in 1..Len(c.names) : c.names[k] = nm]]
        ELSE [key \in {Digit(k - 1) : k \in 1..Len(c.names)} |->
                env[CHOOSE k \in 1..Len(c.names) :
                        Digit(Len(c.names) - k) = key]]]

\* The expression `C(names)` or `C { names }` with the names bound to env.
Construct(c, env) ==
    [variant |-> c.constructor,
     fields |->
        IF c.braces
        THEN [nm \in {c.names[k] : k \in 1..Len(c.names)} |->
                env[CHOOSE k \in 1..Len(c.names) : c.names[k] = nm]]
        ELSE [key \in {Digit(k - 1) : k \in 1..Len(c.names)} |->
                env[CHOOSE k \in 1..Len(c.names) : Digit(k - 1) = key]]]

\* Results: Ok(x), Err(e), or the call of vesta::unreachable().
Ok(x) == <<"Ok", x>>
Err(e) == <<"Err", e>>
Panic == <<"unreachable">>
is_ok(r) == r[1] = "Ok"

\* case_body: `if let C(names) = this { (names) } else { unreachable() }`
CaseBody(c, v) ==
    IF v.variant = c.constructor THEN Ok(Bind(c, v)) ELSE Panic

\* uncase_body: `let (names) = case; C(names)`
UncaseBody(c, p) == Construct(c, p)

\* Mutant of TryCaseBody: the value is handed back whatever its variant.
TryCaseBodyErr(c, v) == Err(v)

\* try_case_body: `if let C(names) = this { Ok((names)) } else { Err(this) }`
TryCaseBody(c, v) ==
    IF v.variant = c.constructor THEN Ok(Bind(c, v)) ELSE Err(v)

\* Case::try_case as the trait provides it:
\* `if this.tag() == Some(N) { Ok(unsafe { Case::case(this) }) } else { Err(this) }`
DefaultTryCase(t, c, v) ==
    IF DerivedTag(t, v) = Some(c.N)
    THEN (IF is_ok(CaseBody(c, v)) THEN CaseBody(c, v) ELSE Panic)
    ELSE Err(v)

-----------------------------------------------------------------------------
(* The derivation of one declaration, and calls of the derived functions *)

caseVars == <<arms, output, errors, tokens, ty, value, tag, sel, calls, ran>>

\* No case-expression is under way.
NoCase ==
    /\ arms = <<>>
    /\ output = None
    /\ errors = <<>>
    /\ tokens = <<>>
    /\ ty = None
    /\ value = None
    /\ tag = None
    /\ sel = 0
    /\ calls = <<>>
    /\ ran = <<>>
    /\ entries = <<>>
    /\ writes = 0

InitDerive ==
    /\ pc = "declared"
    /\ \E d \in DeriveInputs : decl = Some(d)
    /\ impls = None
    /\ idx = 0
    /\ this = None
    /\ given = None
    /\ tagged = None
    /\ tried = None
    /\ cased = None
    /\ uncased = None
    /\ NoCase

\* #[derive(Match)] / derive_match!: derive_match_impl(input)
Derive ==
    /\ pc = "declared"
    /\ impls' = Some(DeriveMatchImpl(decl[1]))
    /\ pc' = "derived"
    /\ UNCHANGED <<decl, idx, this, given, tagged, tried, cased, uncased>>
    /\ UNCHANGED <<entries, writes, caseVars>>

\* The host compiler takes the emitted items, or stops at them.
Build ==
    /\ pc = "derived"
    /\ pc' = IF Compiles(impls[1]) THEN "built" ELSE "build_failed"
    /\ UNCHANGED <<entries, writes, caseVars, deriveVars>>

\* A value of the type, and the N of one of its Case impls.
ChooseValue ==
    /\ pc = "built"
    /\ \E v \in ValuesOf(decl[1]) : this' = Some(v)
    /\ \E n \in CaseTags(impls[1]) : idx' = n
    /\ pc' = "value"
    /\ UNCHANGED <<decl, impls, given, tagged, tried, cased, uncased>>
    /\ UNCHANGED <<entries, writes, caseVars>>

\* A payload of the type Case of one of the Case impls.
ChoosePayload ==
    /\ pc = "built"
    /\ \E n \in CaseTags(impls[1]) :
        /\ idx' = n
        /\ \E p \in PayloadsOf(CaseOf(impls[1], n)) : given' = Some(p)
    /\ pc' = "payload"
    /\ UNCHANGED <<decl, impls, this, tagged, tried, cased, uncased>>
    /\ UNCHANGED <<entries, writes, caseVars>>

\* Case::<N>::uncase(given)
Uncase ==
    /\ pc = "payload"
    /\ this' = Some(UncaseBody(CaseOf(impls[1], idx), given[1]))
    /\ pc' = "value"
    /\ UNCHANGED <<decl, impls, idx, given, tagged, tried, cased, uncased>>
    /\ UNCHANGED <<entries, writes, caseVars>>

\* Match::tag(&this)
Tag ==
    /\ pc = "value"
    /\ tagged' = Some(DerivedTag(ImplsOf(impls[1]), this[1]))
    /\ pc' = "tagged"
    /\ UNCHANGED <<decl, impls, idx, this, given, tried, cased, uncased>>
    /\ UNCHANGED <<entries, writes, caseVars>>

\* Case::<N>::try_case(this)
TryCase ==
    /\ pc = "tagged"
    /\ tried' = Some(TryCaseBody(CaseOf(impls[1], idx), this[1]))
    /\ pc' = "tried"
    /\ UNCHANGED <<decl, impls, idx, this, given, tagged, cased, uncased>>
    /\ UNCHANGED <<entries, writes, caseVars>>

\* unsafe { Case::<N>::case(this) }, called under its safety condition
\* this.tag() == Some(N).
Case ==
    /\ pc = "tried"
    /\ tagged[1] = Some(idx)
    /\ cased' = Some(CaseBody(CaseOf(impls[1], idx), this[1]))
    /\ pc' = "cased"
    /\ UNCHANGED <<decl, impls, idx, this, given, tagged, tried, uncased>>
    /\ UNCHANGED <<entries, writes, caseVars>>

\* Case::<N>::uncase(cased)
UncaseBack ==
    /\ pc = "cased"
    /\ is_ok(cased[1])
    /\ uncased' = Some(UncaseBody(CaseOf(impls[1], idx), cased[1][2]))
    /\ pc' = "uncased"
    /\ UNCHANGED <<decl, impls, idx, this, given, tagged, tried, cased>>
    /\ UNCHANGED <<entries, writes, caseVars>>

NextDerive ==
    \/ Derive
    \/ Build
    \/ ChooseValue
    \/ ChoosePayload
    \/ Uncase
    \/ Tag
    \/ TryCase
    \/ Case
    \/ UncaseBack

SpecDerive == InitDerive /\ [][NextDerive]_vars

-----------------------------------------------------------------------------
(* CaseInput::parse: from the entries as written to the arms *)

ParseArms == 2      \* entries per case-expression in SpecParse

\* What stands between the parentheses of `N(..)`: nothing, or a pattern.
Parenthesized == {""} \cup Pats

\* An entry as written: `_ ..`, `N(pat) ..` or `N ..`, each with or without a
\* guard `if ..`, and `=> body`.
Entries(maxTag) ==
    [form : {"wild"}, lit : {0}, pat : {"_"}, guard : BOOLEAN]
    \cup [form : {"paren"}, lit : 0..maxTag, pat : Parenthesized,
          guard : BOOLEAN]
    \cup [form : {"bare"}, lit : 0..maxTag, pat : {"_"}, guard : BOOLEAN]

\* Mutant of ParseArm: the numeral of `N => ..` stays the arm's pattern.
ParseArmKeepsLiteral(e, i) ==
    IF e.form = "wild"
    THEN [ok |-> TRUE, arm |-> CaseArm(None, i, "_", e.guard)]
    ELSE IF e.form = "paren"
    THEN IF e.pat = ""
         THEN [ok |-> FALSE,
               error |-> [span |-> "parentheses", message |-> "expected pattern"]]
         ELSE [ok |-> TRUE, arm |-> CaseArm(Some(e.lit), i, e.pat, e.guard)]
    ELSE LET parsed == CaseArm(Some(e.lit), i, Decimal(e.lit), e.guard)
         IN  [ok |-> TRUE, arm |-> parsed]

\* CaseArm::parse of the i-th entry: Ok(CaseArm) or Err.  For `N ..` the
\* whole entry is parsed as a syn::Arm, whose pattern is then the numeral,
\* and that pattern is replaced by `_`.
ParseArm(e, i) ==
    IF e.form = "wild"
    THEN [ok |-> TRUE, arm |-> CaseArm(None, i, "_", e.guard)]
    ELSE IF e.form = "paren"
    THEN IF e.pat = ""
         THEN [ok |-> FALSE,
               error |-> [span |-> "parentheses", message |-> "expected pattern"]]
         ELSE [ok |-> TRUE, arm |-> CaseArm(Some(e.lit), i, e.pat, e.guard)]
    ELSE LET parsed == CaseArm(Some(e.lit), i, Decimal(e.lit), e.guard)
         IN  [ok |-> TRUE, arm |-> [parsed EXCEPT !.arm.pat = "_"]]

\* CaseInput::parse: the arms in order, or the error of the first entry
\* that has one.
ParseInput(es) ==
    LET bad == {i \in 1..Len(es) : ~ParseArm(es[i], i).ok} IN
    IF bad = {}
    THEN [ok |-> TRUE, arms |-> [i \in 1..Len(es) |-> ParseArm(es[i], i).arm]]
    ELSE [ok |-> FALSE,
          error |-> ParseArm(es[CHOOSE i \in bad : \A j \in bad : i <= j],
                             CHOOSE i \in bad : \A j \in bad : i <= j).error]

InitParse ==
    /\ pc = "written"
    /\ \E n \in 0..ParseArms : entries \in [1..n -> Entries(MaxTag)]
    /\ writes = 0
    /\ arms = <<>>
    /\ output = None
    /\ errors = <<>>
    /\ tokens = <<>>
    /\ ty = None
    /\ value = None
    /\ tag = None
    /\ sel = 0
    /\ calls = <<>>
    /\ ran = <<>>
    /\ NoDerive

\* case!: parse_macro_input!(input as CaseInput)
Parse ==
    /\ pc = "written"
    /\ LET r == ParseInput(entries) IN
       IF r.ok
       THEN /\ arms' = r.arms
            /\ errors' = errors
            /\ pc' = "parsed"
       ELSE /\ arms' = arms
            /\ errors' = Append(errors, r.error)
            /\ pc' = "parse_failed"
    /\ UNCHANGED <<output, tokens, ty, value, tag, sel, calls, ran>>
    /\ UNCHANGED <<entries, writes, deriveVars>>

NextParse ==
    \/ Parse
    \/ Next

SpecParse == InitParse /\ [][NextParse]_vars

-----------------------------------------------------------------------------
(* The dispatch over a value with interior mutability *)

MutArms == 2        \* arms per case-expression in SpecMut
MaxWrites == 1      \* writes during one dispatch

\* Mutant of MutateInterior: the write changes the variant of the value.
MutateInteriorVariant ==
    /\ pc \in {"tagged", "extract"}
    /\ writes < MaxWrites
    /\ \E v \in Values(ty[1].decl) :
        /\ v.variant # value[1].variant
        /\ value' = Some(v)
    /\ writes' = writes + 1
    /\ UNCHANGED <<pc, arms, output, errors, tokens, ty, tag, sel, calls, ran>>
    /\ UNCHANGED <<entries, deriveVars>>

\* Between `let tag = Match::tag(&value)` and `Case::<T>::case(value)`, a
\* write through interior mutability (a Cell in a field, a shared handle to
\* it held elsewhere).  The dispatch owns `value`, and the derived tag() reads
\* only which constructor the value has (`T::V { .. } => Some(i)`): such a
\* write changes the contents of a field, not the variant.
MutateInterior ==
    /\ pc \in {"tagged", "extract"}
    /\ writes < MaxWrites
    /\ \E v \in Values(ty[1].decl) :
        /\ v.variant = value[1].variant
        /\ v.payload # value[1].payload
        /\ value' = Some(v)
    /\ writes' = writes + 1
    /\ UNCHANGED <<pc, arms, output, errors, tokens, ty, tag, sel, calls, ran>>
    /\ UNCHANGED <<entries, deriveVars>>

InitMut ==
    /\ \E n \in 0..MutArms :
        \E s \in [1..n -> Shapes(MaxTag)] : Start(ArmsOf(s))
    /\ entries = <<>>
    /\ writes = 0
    /\ NoDerive

NextMut ==
    \/ Next
    \/ MutateInterior

SpecMut == InitMut /\ [][NextMut]_vars

-----------------------------------------------------------------------------
(* The case-expression as written, read off the input arms alone *)

HasDefaultArm == \E i \in 1..Len(arms) : is_none(arms[i].tag)

\* The position of the first untagged arm (past the end if there is none).
FirstDefault ==
    IF HasDefaultArm
    THEN CHOOSE i \in 1..Len(arms) :
            is_none(arms[i].tag) /\ \A j \in 1..(i - 1) : is_some(arms[j].tag)
    ELSE Len(arms) + 1

\* The tags of all tagged arms.
ArmTags == {arms[i].tag[1] : i \in {j \in 1..Len(arms) : is_some(arms[j].tag)}}

\* The tags 0..=max_tag that no arm has.
GapTags ==
    IF ArmTags = {} THEN {} ELSE {k \in 0..Max(ArmTags) : k \notin ArmTags}

\* The arms cover exactly 0..N for some N, with no default.
Covering == ~HasDefaultArm /\ GapTags = {}

\* The (span, arm) pairs of the arms tagged T before the first default, in
\* source order.
IsTagged(T, ca) == ca.tag = Some(T)

ArmsTagged(T) ==
    LET before == SubSeq(arms, 1, FirstDefault - 1)
        mine == SelectSeq(before, LAMBDA ca : IsTagged(T, ca))
    IN  [k \in 1..Len(mine) |-> <<mine[k].tag_span, mine[k].arm>>]

Range(f) == {f[i] : i \in DOMAIN f}

\* r1 / r1 and r2 / r1, r2, .., and rn
RECURSIVE CommaList(_, _)
CommaList(rs, k) ==
    IF k = 1 THEN rs[1] ELSE CommaList(rs, k - 1) \o ", " \o rs[k]

Listing(rs) ==
    IF Len(rs) = 1 THEN rs[1]
    ELSE IF Len(rs) = 2 THEN rs[1] \o " and " \o rs[2]
    ELSE CommaList(rs, Len(rs) - 1) \o ", and " \o rs[Len(rs)]

Compiled == pc # "parsed"
Emitted == pc \notin {"parsed", "failed", "compiled"}
Dispatched == pc \in {"extract", "inner", "done"}

-----------------------------------------------------------------------------
(* Claims *)

\* C1: with no default arm and some tag of 0..=max_tag without an arm,
\* compile() returns no CaseOutput but a single error, attributed to the
\* scrutinee, whose message names exactly the tags of {0..=max_tag} that no
\* arm has, each once, in ascending order.
C1_MissingTagsNamed ==
    (Compiled /\ ~HasDefaultArm /\ GapTags # {}) =>
        /\ pc = "failed"
        /\ is_none(output)
        /\ Len(errors) = 1
        /\ errors[1].span = "scrutinee"
        /\ LET ts == Ascending(GapTags) IN
           errors[1].message =
               "non-exhaustive patterns: "
                   \o Listing([k \in 1..Len(ts) |-> RenderTag(ts[k])])
                   \o " not covered"

C1_Witness ==
    /\ pc = "failed"
    /\ ~HasDefaultArm
    /\ Cardinality(GapTags) >= 3
    /\ Cardinality(ArmTags) >= 2

\* C2: with no default arm and arms covering exactly the tags 0..N, compile()
\* succeeds and the emitted outer dispatch has no default arm: its only
\* catch-all is the exhaustive fallthrough, with bound exactly N.
C2_ExhaustiveSound ==
    (Compiled /\ Covering) =>
        /\ pc # "failed"
        /\ is_some(output)
        /\ errors = <<>>
        /\ Emitted =>
            LET catch == {i \in 1..Len(tokens) : is_none(tokens[i].pat)} IN
            /\ Cardinality(catch) = 1
            /\ \A i \in catch :
                /\ tokens[i].kind = "exhaustive"
                /\ tokens[i].bound = Some(Cardinality(ArmTags))
                /\ i = Len(tokens)
            /\ \A i \in 1..Len(tokens) : tokens[i].kind # "default"

C2_Witness ==
    /\ pc = "emitted"
    /\ Covering
    /\ Len(arms) = 3
    /\ ArmTags = {0, 1}

\* C3: a case-expression with at least one default arm always compiles,
\* whatever tags its other arms cover and wherever the default sits.
C3_DefaultSuppresses ==
    (Compiled /\ HasDefaultArm) =>
        /\ pc # "failed"
        /\ is_some(output)
        /\ errors = <<>>

C3_Witness ==
    /\ pc = "compiled"
    /\ Len(arms) = 3
    /\ arms[1].tag = Some(2)
    /\ is_none(arms[2].tag)
    /\ arms[3].tag = Some(1)

\* C4 (as claimed): the message renders each missing tag T as `T(_)`, one tag
\* alone, two joined by " and ", three or more separated by ", " with ", and "
\* before the last.
C4_RendersTagParen ==
    pc = "failed" =>
        LET ts == Ascending(GapTags) IN
        errors[1].message =
            "non-exhaustive patterns: "
                \o Listing([k \in 1..Len(ts) |-> RenderTagCaseMacro(ts[k])])
                \o " not covered"

\* C5: for every tag T, cases[T] and the arms of T's emitted inner dispatch
\* are exactly the arms tagged T that precede the first default arm, in their
\* source order.
C5_OrderWithinTag ==
    is_some(output) =>
        LET out == output[1] IN
        /\ DOMAIN out.cases = {T \in ArmTags : ArmsTagged(T) # <<>>}
        /\ \A T \in DOMAIN out.cases : out.cases[T] = ArmsTagged(T)
        /\ Emitted =>
            \A T \in DOMAIN out.cases :
                LET act == {i \in 1..Len(tokens) :
                               tokens[i].kind = "active"
                               /\ tokens[i].pat = Some(T)}
                    own == SecondOf(ArmsTagged(T))
                IN  /\ Cardinality(act) = 1
                    /\ \A i \in act :
                        /\ tokens[i].extract = Some(T)
                        /\ SubSeq(tokens[i].inner, 1, Len(own)) = own
                        /\ SubSeq(tokens[i].inner, Len(own) + 1,
                                  Len(tokens[i].inner)) = DefaultArm(out)

C5_Witness ==
    /\ pc = "emitted"
    /\ Len(arms) = 3
    /\ arms[1].tag = Some(0)
    /\ arms[2].tag = Some(1)
    /\ arms[3].tag = Some(0)
    /\ arms[1].arm # arms[3].arm

\* C6: in every CaseOutput, default is the first arm in source order whose tag
\* is None (absent if there is none), unreachable is exactly the arms that
\* follow it, in source order and unchanged, and no arm that follows it is in
\* cases.
C6_DefaultAndUnreachable ==
    is_some(output) =>
        LET out == output[1] IN
        /\ HasDefaultArm =>
            /\ out.default =
                   Some(<<arms[FirstDefault].tag_span, arms[FirstDefault].arm>>)
            /\ out.unreachable = SubSeq(arms, FirstDefault + 1, Len(arms))
        /\ ~HasDefaultArm => is_none(out.default) /\ out.unreachable = <<>>
        /\ \A T \in DOMAIN out.cases : \A k \in 1..Len(out.cases[T]) :
            out.cases[T][k][1] < FirstDefault

C6_Witness ==
    /\ pc = "compiled"
    /\ Len(arms) = 3
    /\ is_none(arms[1].tag)
    /\ is_some(arms[2].tag)
    /\ is_none(arms[3].tag)

\* C7: a CaseOutput with no default has a gap-free key set in cases: the keys
\* are exactly 0..=max, or there are none.
C7_GapFreeKeys ==
    (is_some(output) /\ is_none(output[1].default)) =>
        LET keys == DOMAIN output[1].cases IN
        keys = 0..(Cardinality(keys) - 1)

C7_Witness ==
    /\ pc = "compiled"
    /\ is_none(output[1].default)
    /\ DOMAIN output[1].cases = {0, 1, 2}

\* C8 (as claimed): no body of an arm recorded in unreachable is executed for
\* any value; a value whose tag has arms only after the default arm runs the
\* default arm's body.
C8_UnreachableNeverRuns ==
    pc = "done" =>
        \A k \in 1..Len(output[1].unreachable) :
            output[1].unreachable[k].arm.body \notin Range(ran)

\* C9: every unchecked extract Case::<T>::case(value) of a run is made in a
\* branch taken because the tag query on that value returned Some(T).
C9_ExtractOnlyUnderTag ==
    \A k \in 1..Len(calls) :
        /\ calls[k].tag = Some(calls[k].N)
        /\ tag = Some(calls[k].tag)
        /\ tag[1] = DerivedTag(ty[1], value[1])

C9_Witness ==
    /\ pc = "inner"
    /\ Len(calls) = 1
    /\ calls[1].N = 1
    /\ HasDefaultArm

\* C10: for a derived closed type with N variants and a case-expression with
\* no default covering the tags 0..N, every value dispatches into the outer
\* arm of its own tag, and the exhaustive fallthrough is never executed.
C10_NoFallthrough ==
    (Dispatched /\ ty[1].decl.exhaustive /\ Covering
        /\ Cardinality(ArmTags) = ty[1].decl.num_variants) =>
        /\ tokens[sel].kind = "active"
        /\ tokens[sel].pat = Some(value[1].variant)
        /\ Unreachable \notin Range(ran)

C10_Witness ==
    /\ pc = "done"
    /\ ty[1].decl.exhaustive
    /\ Covering
    /\ ty[1].decl.num_variants = 3
    /\ value[1].variant = 2
    /\ Len(ran) = 1

\* C11: with no default and arms covering the tags 0..N, the expansion holds
\* the fallthrough asserting the bound N, and the host compiler accepts the
\* dispatch only for a scrutinee type whose range is Exhaustive<N>: an open
\* type, and a closed type with another bound, are rejected.
C11_BoundAsserted ==
    (pc \in {"checked", "rejected"} /\ Covering) =>
        LET N == Cardinality(ArmTags) IN
        /\ \E i \in 1..Len(tokens) :
            tokens[i].kind = "exhaustive" /\ tokens[i].bound = Some(N)
        /\ pc = "checked" => ty[1].range = Exhaustive(N)
        /\ ty[1].range = Nonexhaustive => pc = "rejected"
        /\ (ty[1].decl.exhaustive /\ ty[1].decl.num_variants # N) =>
            pc = "rejected"

C11_Witness ==
    /\ pc = "rejected"
    /\ Covering
    /\ Cardinality(ArmTags) = 2
    /\ ty[1].range = Nonexhaustive
    /\ ty[1].decl.num_variants = 2
    /\ \A i \in 1..Len(arms) : arms[i].arm.pat = "_" /\ ~arms[i].arm.guard

\* C12: with a default arm, a value whose tag is None, or Some(T) for a T
\* with no arm before the default, runs the default arm's body and nothing
\* else, and Case::case is not called for it.
C12_DefaultTaken ==
    (pc = "done" /\ HasDefaultArm
        /\ (is_none(tag[1]) \/ ArmsTagged(tag[1][1]) = <<>>)) =>
        /\ ran = <<arms[FirstDefault].arm.body>>
        /\ calls = <<>>

-----------------------------------------------------------------------------
(* The derivation: claims *)

\* The declaration is an enum, and the Match impl of the derivation.
Derived == is_some(impls)
TheMatch == ItemsOfKind(impls[1], "Match")[1]
HasMatch == Derived /\ ItemsOfKind(impls[1], "Match") # <<>>
NumVariants == Len(decl[1].variants)

\* C13: the derived tag function returns Some(i) for every value of the i-th
\* declared variant, counted from 0 in declaration order; for a closed
\* derived type with n variants it never returns None and every tag is
\* below n.
C13_TagIsVariantIndex ==
    is_some(tagged) =>
        /\ this[1].variant < NumVariants => tagged[1] = Some(this[1].variant)
        /\ TheMatch.range = Exhaustive(NumVariants) =>
            /\ is_some(tagged[1])
            /\ tagged[1][1] < NumVariants

C13_Witness ==
    /\ pc = "tagged"
    /\ decl[1].data = "enum"
    /\ ~decl[1].non_exhaustive
    /\ NumVariants = 2
    /\ this[1].variant = 1
    /\ tagged[1] = Some(1)

\* C14: a derived type is closed with the bound its number of declared
\* variants (1 for a struct) unless the declaration carries
\* #[non_exhaustive]; every declaration carrying it, enum or struct, is
\* derived as open: Range is Nonexhaustive and the tag function ends in the
\* fallthrough returning None.
C14_OpenIffMarked ==
    HasMatch =>
        IF decl[1].non_exhaustive
        THEN /\ TheMatch.range = Nonexhaustive
             /\ TheMatch.tag_arms[Len(TheMatch.tag_arms)]
                    = [ctor |-> None, result |-> None]
        ELSE /\ TheMatch.range = Exhaustive(NumVariants)
             /\ \A k \in 1..Len(TheMatch.tag_arms) :
                    is_some(TheMatch.tag_arms[k].result)

\* The case-expression `{ 0 => .. }` with no default.
OnlyZero == <<CaseArm(Some(0), 1, "_", FALSE)>>

\* C15: for a struct the derivation yields a closed type with the one tag 0:
\* tag() is always Some(0), and the Range is Exhaustive<1>, the type
\* assert_exhaustive asks for, so that the items compile and `{ 0 => .. }`
\* with no default over the struct is accepted with N = 1.
C15_StructIsExhaustiveOne ==
    (pc \in {"built", "build_failed"} /\ decl[1].data = "struct" /\ HasMatch) =>
        /\ TheMatch.tag_arms = <<[ctor |-> None, result |-> Some(0)]>>
        /\ TheMatch.range = Exhaustive(1)
        /\ pc = "built"
        /\ TypeChecks(ToTokens(CompileResult(OnlyZero).output),
                      ImplsOf(impls[1]))

\* C16: uncase(case(v)) = v, for every derived Case<N> and every value v with
\* tag N, whatever the shape of the variant's fields.
C16_RoundTrip ==
    pc = "uncased" => uncased[1] = this[1]

C16_Witness ==
    /\ pc = "uncased"
    /\ given = None
    /\ decl[1].variants[idx + 1] = [style |-> "unnamed", len |-> 2]
    /\ this[1].fields["0"] # this[1].fields["1"]

\* C17: for every payload p of Case<N>, uncase(p) is a value of the declared
\* type whose tag is Some(N), and case of that value is p again, the fields
\* in declared order.
C17_UncaseFaithful ==
    (is_some(given) /\ pc # "payload") =>
        /\ this[1] \in ValuesOf(decl[1])
        /\ this[1].variant = idx
        /\ is_some(tagged) => tagged[1] = Some(idx)
        /\ pc = "tried" => ENABLED Case
        /\ is_some(cased) => cased[1] = Ok(given[1])

C17_Witness ==
    /\ pc = "cased"
    /\ is_some(given)
    /\ idx = 1
    /\ Len(given[1]) = 2
    /\ given[1][1] # given[1][2]

\* C18: try_case does not panic; for a value with tag N it is Ok of the
\* payload case() extracts, for a value with another tag (or none) it is Err
\* of the value itself; and it is what the trait's default try_case (query
\* the tag, extract only if it is Some(N)) returns.
C18_TryCase ==
    is_some(tried) =>
        LET c == CaseOf(impls[1], idx) IN
        /\ tried[1] # Panic
        /\ tagged[1] = Some(idx) =>
            /\ is_ok(tried[1])
            /\ tried[1] = CaseBody(c, this[1])
            /\ is_some(cased) => tried[1] = cased[1]
        /\ tagged[1] # Some(idx) =>
            /\ ~is_ok(tried[1])
            /\ tried[1][2] = this[1]
        /\ tried[1] = DefaultTryCase(ImplsOf(impls[1]), c, this[1])

C18_Witness ==
    /\ pc = "tried"
    /\ given = None
    /\ idx = 0
    /\ tagged[1] = Some(1)
    /\ tried[1] = Err(this[1])
    /\ decl[1].variants[2].len = 1

\* C19: a variant, or a struct, with two or more named fields gets an error
\* at its fields whose message names it, and no Case impl; one with exactly
\* one named field gets its Case impl with that field's type as Case; unnamed
\* fields, however many, get their Case impl.
ShapeError(k) ==
    CompileError(Some(k - 1),
                 IF decl[1].data = "struct" THEN StructMessage("T")
                 ELSE VariantMessage("T", VariantIdent(k - 1)))

C19_SingleNamedField ==
    (Derived /\ decl[1].data # "union") =>
        \A k \in 1..NumVariants :
            LET f == decl[1].variants[k]
                errs == ItemsOfKind(impls[1], "compile_error")
            IN  /\ (f.style = "named" /\ f.len >= 2) =>
                    /\ \E e \in 1..Len(errs) : errs[e] = ShapeError(k)
                    /\ k - 1 \notin CaseTags(impls[1])
                /\ (f.style = "named" /\ f.len = 1) =>
                    /\ k - 1 \in CaseTags(impls[1])
                    /\ CaseOf(impls[1], k - 1).Case = FieldType(1)
                    /\ \A e \in 1..Len(errs) : errs[e].span # Some(k - 1)
                /\ f.style = "unnamed" =>
                    /\ k - 1 \in CaseTags(impls[1])
                    /\ \A e \in 1..Len(errs) : errs[e].span # Some(k - 1)

C19_Witness ==
    /\ pc = "derived"
    /\ decl[1].data = "enum"
    /\ NumVariants = 2
    /\ decl[1].variants[1] = [style |-> "named", len |-> 1]
    /\ decl[1].variants[2] = [style |-> "named", len |-> 2]
    /\ Len(ItemsOfKind(impls[1], "compile_error")) = 1

\* C20: the parser makes of an entry beginning with `_` an arm with tag None;
\* of `N(pat)` an arm with tag N and the pattern pat; of `N` without
\* parentheses an arm with tag N whose pattern is `_`, the same arm as that
\* of `N(_)`, which matches every payload; a guard, if written, is kept.
C20_ArmClassification ==
    pc \notin {"written", "parse_failed"} =>
        /\ Len(arms) = Len(entries)
        /\ \A i \in 1..Len(entries) :
            LET e == entries[i] IN
            /\ arms[i].arm.guard = e.guard
            /\ e.form = "wild" => is_none(arms[i].tag)
            /\ e.form = "paren" =>
                arms[i].tag = Some(e.lit) /\ arms[i].arm.pat = e.pat
            /\ e.form = "bare" =>
                /\ arms[i].tag = Some(e.lit)
                /\ arms[i].arm.pat = "_"
                /\ arms[i] = ParseArm([e EXCEPT !.form = "paren"], i).arm
                /\ \A p \in Payloads : PatMatches(arms[i].arm.pat, p)

C20_Witness ==
    /\ pc = "done"
    /\ Len(entries) = 2
    /\ entries[1] = [form |-> "bare", lit |-> 0, pat |-> "_", guard |-> TRUE]
    /\ entries[2].form = "wild"
    /\ ~entries[2].guard
    /\ value[1].variant = 0
    /\ value[1].payload = 1
    /\ ran = <<1>>

-----------------------------------------------------------------------------
(* The emitted arms: claims *)

\* The inner arm the run took last, and the default arm's body.
LastRan == ran[Len(ran)]
DefaultBody == arms[FirstDefault].arm.body

\* C21: with a default arm, the inner match of every tag T holds T's arms in
\* source order followed by the default arm; for a value tagged T the first T
\* arm whose pattern matches and whose guard holds runs, and the default
\* arm's body runs exactly when no T arm matches.
C21_InnerInheritsDefault ==
    /\ (Emitted /\ HasDefaultArm) =>
        \A i \in 1..Len(tokens) :
            tokens[i].kind = "active" =>
                tokens[i].inner = SecondOf(ArmsTagged(tokens[i].pat[1]))
                                    \o <<arms[FirstDefault].arm>>
    /\ (pc = "done" /\ HasDefaultArm /\ tokens[sel].kind = "active") =>
        LET mine == SecondOf(ArmsTagged(tag[1][1]))
            p == calls[Len(calls)].payload[1]
            hits == {j \in 1..Len(mine) : PatMatches(mine[j].pat, p)}
        IN  /\ hits = {} => LastRan = DefaultBody
            /\ LastRan = DefaultBody => \A j \in hits : mine[j].guard
            /\ LastRan # DefaultBody =>
                \E j \in hits :
                    /\ LastRan = mine[j].body
                    /\ \A k \in hits : k < j => mine[k].guard
            /\ \A j \in hits :
                ~mine[j].guard =>
                    \E k \in hits : k <= j /\ LastRan = mine[k].body

C21_Witness ==
    /\ pc = "done"
    /\ Len(arms) = 3
    /\ arms[1].tag = Some(0) /\ arms[1].arm.pat = "0" /\ ~arms[1].arm.guard
    /\ arms[2].tag = Some(0) /\ arms[2].arm.pat = "_" /\ arms[2].arm.guard
    /\ is_none(arms[3].tag) /\ ~arms[3].arm.guard
    /\ tag[1] = Some(0)
    /\ value[1].payload = 1
    /\ ran = <<3>>

\* The outer arms that hold the arm a: as the outer arm itself, or as an arm
\* of the sub-match.
HoldersOf(a) ==
    {i \in 1..Len(tokens) :
        \/ tokens[i].body = Some(a.body)
        \/ \E j \in 1..Len(tokens[i].inner) : tokens[i].inner[j] = a}

\* The outer arms before those of the unreachable arms.
Base == Len(tokens) - Len(output[1].unreachable)

\* Every arm of unreachable is emitted exactly once, in source order, after
\* the default arm.
UnreachableInOrder ==
    LET u == output[1].unreachable IN
    /\ u # <<>> => Base >= 1 /\ tokens[Base].kind = "default"
    /\ \A i \in 1..Len(tokens) : tokens[i].kind = "unreachable" <=> i > Base
    /\ \A k \in 1..Len(u) : HoldersOf(u[k].arm) = {Base + k}

\* The k-th unreachable arm is emitted in a sub-match against its tag.
InSubMatch(k) ==
    LET u == output[1].unreachable IN
    /\ is_some(u[k].tag)
    /\ tokens[Base + k].pat = u[k].tag
    /\ tokens[Base + k].extract = u[k].tag
    /\ tokens[Base + k].inner[1] = u[k].arm

\* C22 (as claimed): every arm recorded in unreachable is emitted exactly
\* once, in source order, after the outer catch-all arm, each inside its own
\* one-armed sub-match against its original tag.
C22_AllInSubMatch ==
    Emitted =>
        /\ UnreachableInOrder
        /\ \A k \in 1..Len(output[1].unreachable) : InSubMatch(k)

\* C22 (amended): every arm recorded in unreachable is emitted exactly once,
\* in source order, after the default arm; a tagged one inside its own
\* sub-match against its original tag, holding that arm and the generated
\* `_ => unreachable()`; an untagged one as an outer `_` arm itself, with no
\* sub-match.
C22_TaggedInSubMatch ==
    Emitted =>
        /\ UnreachableInOrder
        /\ \A k \in 1..Len(output[1].unreachable) :
            LET ca == output[1].unreachable[k]
                tok == tokens[Base + k]
            IN  IF is_some(ca.tag)
                THEN /\ InSubMatch(k)
                     /\ tok.inner = <<ca.arm, WildUnreachable>>
                     /\ ~tok.guard
                     /\ is_none(tok.body)
                ELSE /\ is_none(tok.pat)
                     /\ is_none(tok.extract)
                     /\ tok.inner = <<>>
                     /\ tok.guard = ca.arm.guard
                     /\ tok.body = Some(ca.arm.body)

C22_Witness ==
    /\ pc = "emitted"
    /\ Len(arms) = 3
    /\ is_none(arms[1].tag)
    /\ arms[2].tag = Some(1)
    /\ is_none(arms[3].tag)
    /\ Len(tokens) = 3
    /\ tokens[2].kind = "unreachable" /\ tokens[2].extract = Some(1)
    /\ tokens[3].kind = "unreachable" /\ is_none(tokens[3].extract)

-----------------------------------------------------------------------------
(* The derivation's errors: claims *)

\* C23: whenever the derivation reports an error (a variant or struct with
\* more than one named field, or a union), it emits no Match impl (no tag
\* function) and no Case impl (no case, try_case, uncase) for the
\* declaration.
C23_ErrorIsFatal ==
    (Derived /\ ItemsOfKind(impls[1], "compile_error") # <<>>) =>
        /\ ItemsOfKind(impls[1], "Match") = <<>>
        /\ ItemsOfKind(impls[1], "Case") = <<>>

-----------------------------------------------------------------------------
(* Interior mutability: claims *)

-----------------------------------------------------------------------------
(* Arm conservation: claims *)

\* Where the i-th input arm is held in a CaseOutput.
InCases(out, i) ==
    {<<T, k>> \in UNION {{<<U, j>> : j \in 1..Len(out.cases[U])} :
                            U \in DOMAIN out.cases} :
        out.cases[T][k] = <<arms[i].tag_span, arms[i].arm>>}

InDefault(out, i) ==
    IF out.default = Some(<<arms[i].tag_span, arms[i].arm>>) THEN {0} ELSE {}

InUnreachable(out, i) ==
    {k \in 1..Len(out.unreachable) : out.unreachable[k] = arms[i]}

BucketSizes(out) ==
    Cardinality(UNION {{<<U, j>> : j \in 1..Len(out.cases[U])} :
                            U \in DOMAIN out.cases})

\* C25: whenever compile() succeeds, every input arm is in exactly one of
\* cases, default and unreachable, so the sizes of the buckets of cases, plus
\* one for a default, plus the length of unreachable, make the number of input
\* arms; unreachable is non-empty only with a default; and every arm in cases
\* stands before the default in the source.
C25_ArmConservation ==
    is_some(output) =>
        LET out == output[1] IN
        /\ \A i \in 1..Len(arms) :
            Cardinality(InCases(out, i)) + Cardinality(InDefault(out, i))
                + Cardinality(InUnreachable(out, i)) = 1
        /\ BucketSizes(out) + Len(out.default) + Len(out.unreachable)
                = Len(arms)
        /\ out.unreachable # <<>> => is_some(out.default)
        /\ is_some(out.default) =>
            \A T \in DOMAIN out.cases : \A k \in 1..Len(out.cases[T]) :
                out.cases[T][k][1] < out.default[1][1]

C25_Witness ==
    /\ pc = "compiled"
    /\ Len(arms) = 3
    /\ arms[1].tag = Some(1)
    /\ is_none(arms[2].tag)
    /\ arms[3].tag = Some(1)
    /\ Len(output[1].unreachable) = 1
    /\ DOMAIN output[1].cases = {1}

====
